---------------------------- MODULE Spec2Model ----------------------------
(***************************************************************************)
(* A model of the crypto return comparison dashboard (app.py) and of its   *)
(* earlier script form (app_old.py).                                       *)
(*                                                                         *)
(* Dates are day numbers.  Floating point numbers are modelled as exact    *)
(* rationals over the common denominator Scale, together with the two      *)
(* non-numbers the program handles: NaN (what pct_change yields for the    *)
(* first row) and None (an unset Optional[float]).  A return r stands for  *)
(* r.v / Scale percent.  Rounding error of IEEE doubles is not modelled.   *)
(* The rows of a daily download are stamped at midnight, so Timestamp.date *)
(* and pd.Timestamp(date) keep the day number.                             *)
(***************************************************************************)
EXTENDS Integers, Sequences, FiniteSets

VARIABLES
    remote,          \* what yf.download returns per symbol (rows, close may be NaN)
    default_days,    \* the default_days argument of compare_crypto_assets
    cache,           \* the st.cache_data store of get_crypto_data, per symbol
    widget,          \* the st.slider widget: shown, bounds, current value
    pc,              \* position of the script run: compare, display, done
    outcome,         \* how the current script run ended so far
    domain,          \* the locals min_date, max_date of compare_crypto_assets
    default_window,  \* the locals default_start_date, default_end_date
    result,          \* the ComparisonResult handed to display_comparison
    page,            \* what display_comparison has put on the page
    sample,          \* history: one successful computation, and whether a run has started since
    percentage,      \* argument of a direct call of get_heading_level
    heading,         \* result of that call
    old_inputs,      \* app_old.py: the date inputs and the "Time Range" slider value
    old_page         \* app_old.py: the returns it writes

vars == <<remote, default_days, cache, widget, pc, outcome, domain,
          default_window, result, page, sample, percentage, heading,
          old_inputs, old_page>>

-----------------------------------------------------------------------------
(* Bounds of the model.                                                    *)

MaxDate == 4

MaxMissing == 1

SmallDays == 2

HeadingRange == 1600

(* Program constants.                                                      *)

DefaultDays == 365

Symbols == {"BTC", "ETH"}

(* The closing prices of the two markets, day by day (repeating).          *)
PricePaths == [BTC |-> <<100, 110, 99, 198>>, ETH |-> <<200, 100, 50, 100>>]

Price(symbol, d) == PricePaths[symbol][((d - 1) % Len(PricePaths[symbol])) + 1]

AllPrices == UNION { {PricePaths[s][i] : i \in 1..Len(PricePaths[s])} : s \in Symbols }

RECURSIVE GCD(_, _)
GCD(a, b) == IF b = 0 THEN a ELSE GCD(b, a % b)

RECURSIVE LCMOf(_)
LCMOf(S) ==
    IF S = {} THEN 10
    ELSE LET x == CHOOSE y \in S : TRUE
             r == LCMOf(S \ {x})
         IN  (x * r) \div GCD(x, r)

(* Common denominator of every quotient the program forms.                 *)
Scale == LCMOf(AllPrices)

-----------------------------------------------------------------------------
(* Python values: float (number or NaN) and None.                          *)

None == [tag |-> "None", v |-> 0]

NaN == [tag |-> "nan", v |-> 0]

Num(x) == [tag |-> "num", v |-> x]

IsNum(a) == a.tag = "num"

FSub(a, b) == IF IsNum(a) /\ IsNum(b) THEN Num(a.v - b.v) ELSE NaN

FGe(a, b) == IsNum(a) /\ IsNum(b) /\ a.v >= b.v

FLt(a, b) == IsNum(a) /\ IsNum(b) /\ a.v < b.v

FAbs(a) == IF IsNum(a) /\ a.v < 0 THEN Num(0 - a.v) ELSE a

(* bool(x): None and 0.0 are falsy, NaN and every other number truthy.     *)
Truthy(a) == a.tag = "nan" \/ (IsNum(a) /\ a.v # 0)

(* x or 0                                                                  *)
OrZero(a) == IF Truthy(a) THEN a ELSE Num(0)

(* Python's max(a, b) and min(a, b): the first argument wins a tie.        *)
PyMax(a, b) == IF b > a THEN b ELSE a

PyMin(a, b) == IF b < a THEN b ELSE a

-----------------------------------------------------------------------------
(* get_crypto_data                                                         *)

(* data.dropna(inplace=True): rows with a missing close are removed.       *)
DropNa(rows) == SelectSeq(rows, LAMBDA r : IsNum(r.close))

(* Series.pct_change(): NaN for the first row, then (c[i]-c[i-1])/c[i-1],  *)
(* here in units of 1/Scale.                                               *)
PctChange(rows) ==
    [i \in 1..Len(rows) |->
        IF i = 1 THEN NaN
        ELSE Num((rows[i].close.v - rows[i-1].close.v) * (Scale \div rows[i-1].close.v))]

(* Series.cumsum(): NaN entries are skipped by the running sum and stay    *)
(* NaN in the result.                                                      *)
RECURSIVE RunningSum(_, _)
RunningSum(s, i) ==
    IF i = 0 THEN 0
    ELSE RunningSum(s, i - 1) + (IF IsNum(s[i]) THEN s[i].v ELSE 0)

CumSum(s) == [i \in 1..Len(s) |-> IF IsNum(s[i]) THEN Num(RunningSum(s, i)) ELSE NaN]

(* data["Return"] = data["Close"].pct_change().cumsum() * 100              *)
WithReturn(rows) ==
    LET cs == CumSum(PctChange(rows))
    IN  [i \in 1..Len(rows) |->
            [date |-> rows[i].date, close |-> rows[i].close,
             ret |-> IF IsNum(cs[i]) THEN Num(cs[i].v * 100) ELSE NaN]]

(* The CryptoData object built from a download.                            *)
BuildCryptoData(symbol, rows) ==
    LET data == WithReturn(DropNa(rows))
    IN  [symbol |-> symbol, data |-> data,
         min_date |-> data[1].date, max_date |-> data[Len(data)].date,
         return_value |-> None, return_color |-> "None"]

NoEntry == [symbol |-> "", data |-> <<>>, min_date |-> 0, max_date |-> 0,
            return_value |-> None, return_color |-> "None"]

(* @st.cache_data: the store after a call for symbol.                      *)
CacheAfterCall(c, symbol) ==
    IF c[symbol] = NoEntry
    THEN [c EXCEPT ![symbol] = BuildCryptoData(symbol, remote[symbol])]
    ELSE c

(* A store that hands out the stored objects themselves: what a run       *)
(* writes into them stays in the store.                                    *)
CacheByReference(c, src, cmp) == [c EXCEPT ![src.symbol] = src, ![cmp.symbol] = cmp]

(* @st.cache_data: every call returns a copy of the stored value, so what  *)
(* the caller does to the returned object does not reach the store.        *)
CacheAfterRun(c, src, cmp) == c

get_crypto_data(c, symbol) == CacheAfterCall(c, symbol)[symbol]

-----------------------------------------------------------------------------
(* get_heading_level                                                       *)

(* The thresholds applied to the signed value.                             *)
get_heading_level_signed(p) ==
    IF FGe(p, Num(100 * Scale)) THEN "#"
    ELSE IF FGe(p, Num(50 * Scale)) THEN "##"
    ELSE IF FGe(p, Num(10 * Scale)) THEN "###"
    ELSE "####"

get_heading_level(p) ==
    IF FGe(FAbs(p), Num(100 * Scale)) THEN "#"
    ELSE IF FGe(FAbs(p), Num(50 * Scale)) THEN "##"
    ELSE IF FGe(FAbs(p), Num(10 * Scale)) THEN "###"
    ELSE "####"

-----------------------------------------------------------------------------
(* compare_crypto_assets                                                   *)

(* A range that starts with the source asset's first date.                *)
ResolveDomainFromSource(a, b) ==
    [min_date |-> a.min_date,
     max_date |-> PyMin(a.max_date, b.max_date)]

(* min_date, max_date: the overlapping date range.                         *)
ResolveDomain(a, b) ==
    [min_date |-> PyMax(a.min_date, b.min_date),
     max_date |-> PyMin(a.max_date, b.max_date)]

(* default_start_date, default_end_date                                    *)
DefaultWindow(dom, days) ==
    LET default_end_date   == dom.max_date
        default_start_date == default_end_date - days
    IN  [start |-> IF default_start_date < dom.min_date THEN dom.min_date
                   ELSE default_start_date,
         end   |-> default_end_date]

NoWidget == [shown |-> FALSE, lo |-> 0, hi |-> 0, start |-> 0, end |-> 0]

(* st.slider: with min_value <= value <= max_value it shows the widget and *)
(* returns its current value (the default until the user moves it).  With  *)
(* min_value > max_value its behaviour is the framework's: it either       *)
(* refuses the arguments with an exception or shows a slider over the      *)
(* reordered bounds.                                                       *)
SliderCall(w, dom, dw) ==
    IF w.shown
    THEN {[raised |-> FALSE, w |-> w]}
    ELSE IF dom.min_date <= dom.max_date
    THEN {[raised |-> FALSE,
           w |-> [shown |-> TRUE, lo |-> dom.min_date, hi |-> dom.max_date,
                  start |-> dw.start, end |-> dw.end]]}
    ELSE {[raised |-> TRUE, w |-> NoWidget],
          [raised |-> FALSE,
           w |-> [shown |-> TRUE, lo |-> dom.max_date, hi |-> dom.min_date,
                  start |-> dom.max_date, end |-> dom.min_date]]}

(* A slice that leaves out the row of the start date.                      *)
LocAfterStart(data, start, end) == SelectSeq(data, LAMBDA r : start < r.date /\ r.date <= end)

(* asset.data.loc[start_date:end_date]: the rows whose date lies in the    *)
(* closed range.                                                           *)
Loc(data, start, end) == SelectSeq(data, LAMBDA r : start <= r.date /\ r.date <= end)

(* filtered_data["Return"].iloc[-1] - filtered_data["Return"].iloc[0]      *)
WindowReturn(filtered) == FSub(filtered[Len(filtered)].ret, filtered[1].ret)

ReturnColor(rv) == IF FGe(rv, Num(0)) THEN "green" ELSE "red"

(* One pass of the loop body over an asset; iloc on an empty frame raises. *)
Raises(asset, start, end) == Loc(asset.data, start, end) = <<>>

Calc(asset, start, end) ==
    LET rv == WindowReturn(Loc(asset.data, start, end))
    IN  [asset EXCEPT !.return_value = rv, !.return_color = ReturnColor(rv)]

NoResult == [set |-> FALSE, start_date |-> 0, end_date |-> 0,
             src_asset |-> NoEntry, compare_asset |-> NoEntry]

NoDomain == [set |-> FALSE, min_date |-> 0, max_date |-> 0]

NoWindow == [set |-> FALSE, start |-> 0, end |-> 0]

NoPage == [returns |-> <<>>, chart |-> NoWindow, footnotes |-> <<>>]

NoSample == [set |-> FALSE, earlier |-> FALSE, res |-> NoResult]

Compare ==
    /\ pc = "compare"
    /\ LET src_data == get_crypto_data(cache, "BTC")
           c1       == CacheAfterCall(cache, "BTC")
           compare_data == get_crypto_data(c1, "ETH")
           c2       == CacheAfterCall(c1, "ETH")
           dom      == ResolveDomain(src_data, compare_data)
           dw       == DefaultWindow(dom, default_days)
       IN  /\ domain' = [set |-> TRUE, min_date |-> dom.min_date, max_date |-> dom.max_date]
           /\ default_window' = [set |-> TRUE, start |-> dw.start, end |-> dw.end]
           /\ \E s \in SliderCall(widget, dom, dw) :
                /\ widget' = s.w
                /\ IF s.raised
                   THEN /\ outcome' = "StreamlitAPIException"
                        /\ pc' = "done"
                        /\ result' = NoResult
                        /\ cache' = c2
                        /\ sample' = sample
                   ELSE IF Raises(src_data, s.w.start, s.w.end)
                           \/ Raises(compare_data, s.w.start, s.w.end)
                   THEN /\ outcome' = "IndexError"
                        /\ pc' = "done"
                        /\ result' = NoResult
                        /\ cache' = IF Raises(src_data, s.w.start, s.w.end)
                                    THEN c2
                                    ELSE CacheAfterRun(c2, Calc(src_data, s.w.start, s.w.end),
                                                       compare_data)
                        /\ sample' = sample
                   ELSE LET src == Calc(src_data, s.w.start, s.w.end)
                            cmp == Calc(compare_data, s.w.start, s.w.end)
                            res == [set |-> TRUE, start_date |-> s.w.start,
                                    end_date |-> s.w.end,
                                    src_asset |-> src, compare_asset |-> cmp]
                        IN  /\ outcome' = "ok"
                            /\ pc' = "display"
                            /\ result' = res
                            /\ cache' = CacheAfterRun(c2, src, cmp)
                            /\ sample' \in (IF sample.set THEN {sample}
                                            ELSE {sample, [set |-> TRUE, earlier |-> FALSE,
                                                           res |-> res]})
    /\ UNCHANGED <<remote, default_days, page, percentage, heading, old_inputs, old_page>>

-----------------------------------------------------------------------------
(* display_comparison                                                      *)

(* sorted([a, b], key=..., reverse=True): list.sort reverses the list,     *)
(* sorts it ascending (a run of two is descending when the second is less  *)
(* than the first, and is then reversed) and reverses it again.  The pair  *)
(* is swapped exactly when key(a) < key(b).                                *)
SortedReverse(a, b) ==
    IF FLt(OrZero(a.return_value), OrZero(b.return_value)) THEN <<b, a>> ELSE <<a, b>>

(* f"{x:.2f}": hundredths of a percent, rounded half to even; "nan" for    *)
(* NaN; formatting None raises TypeError.                                  *)
Format2f(x) ==
    IF x.tag = "None" THEN [tag |-> "TypeError", v |-> 0]
    ELSE IF x.tag = "nan" THEN [tag |-> "nan", v |-> 0]
    ELSE LET n  == x.v * 100
             fl == n \div Scale
             r  == n % Scale
         IN  [tag |-> "num",
              v |-> IF 2 * r > Scale \/ (2 * r = Scale /\ fl % 2 = 1) THEN fl + 1 ELSE fl]

ReturnLine(asset) ==
    [symbol  |-> asset.symbol,
     heading |-> get_heading_level(OrZero(asset.return_value)),
     color   |-> asset.return_color,
     text    |-> Format2f(asset.return_value)]

Footnote(asset) ==
    [symbol |-> asset.symbol, min_date |-> asset.min_date, max_date |-> asset.max_date]

Display ==
    /\ pc = "display"
    /\ LET order == SortedReverse(result.src_asset, result.compare_asset)
           lines == [i \in 1..2 |-> ReturnLine(order[i])]
       IN  IF lines[1].text.tag = "TypeError"
           THEN /\ page' = NoPage
                /\ outcome' = "TypeError"
           ELSE IF lines[2].text.tag = "TypeError"
           THEN /\ page' = [NoPage EXCEPT !.returns = <<lines[1]>>]
                /\ outcome' = "TypeError"
           ELSE /\ page' = [returns   |-> lines,
                            chart     |-> [set |-> TRUE, start |-> result.start_date,
                                           end |-> result.end_date],
                            footnotes |-> <<Footnote(result.src_asset),
                                            Footnote(result.compare_asset)>>]
                /\ outcome' = "ok"
    /\ pc' = "done"
    /\ UNCHANGED <<remote, default_days, cache, widget, domain, default_window,
                   result, sample, percentage, heading, old_inputs, old_page>>

-----------------------------------------------------------------------------
(* The user and the framework: every interaction runs the script again.    *)

StartRun ==
    /\ pc' = "compare"
    /\ outcome' = "none"
    /\ domain' = NoDomain
    /\ default_window' = NoWindow
    /\ result' = NoResult
    /\ page' = NoPage
    /\ sample' = [sample EXCEPT !.earlier = sample.set]

(* The user moves the range slider within the bounds it shows.             *)
UserSlide ==
    /\ pc = "done"
    /\ widget.shown
    /\ \E s \in widget.lo..widget.hi, e \in widget.lo..widget.hi :
          /\ s <= e
          /\ <<s, e>> # <<widget.start, widget.end>>
          /\ widget' = [widget EXCEPT !.start = s, !.end = e]
    /\ StartRun
    /\ UNCHANGED <<remote, default_days, cache, percentage, heading,
                   old_inputs, old_page>>

(* A rerun without any change of a widget.                                 *)
Rerun ==
    /\ pc = "done"
    /\ StartRun
    /\ UNCHANGED <<remote, default_days, cache, widget, percentage,
                   heading, old_inputs, old_page>>

-----------------------------------------------------------------------------
NoOldInputs == [set |-> FALSE, start_date |-> 0, end_date |-> 0, lo |-> 0, hi |-> 0]

NoOldPage == [set |-> FALSE, btc_return |-> None, eth_return |-> None]

(* The downloads the model draws.                                          *)

RemoteRows(symbol, lo, hi, missing) ==
    [i \in 1..(hi - lo + 1) |->
        [date  |-> lo + i - 1,
         close |-> IF (lo + i - 1) \in missing THEN NaN ELSE Num(Price(symbol, lo + i - 1))]]

(* Rows for every day of a listing period lo..hi, of which at most         *)
(* maxMissing have no close, and at least one has.                         *)
RemoteChoices(symbol, maxMissing) ==
    UNION { { RemoteRows(symbol, lo, hi, m) :
                m \in { x \in SUBSET (lo..hi) :
                          Cardinality(x) <= maxMissing /\ x # lo..hi } } :
            lo \in 1..MaxDate, hi \in 1..MaxDate }

Downloads(maxMissing) ==
    { [BTC |-> b, ETH |-> e] :
        b \in RemoteChoices("BTC", maxMissing), e \in RemoteChoices("ETH", maxMissing) }

Init ==
    /\ remote \in Downloads(MaxMissing)
    /\ default_days \in {0, SmallDays, DefaultDays}
    /\ cache = [s \in Symbols |-> NoEntry]
    /\ widget = NoWidget
    /\ pc = "compare"
    /\ outcome = "none"
    /\ domain = NoDomain
    /\ default_window = NoWindow
    /\ result = NoResult
    /\ page = NoPage
    /\ sample = NoSample
    /\ percentage = Num(0)
    /\ heading = ""
    /\ old_inputs = NoOldInputs
    /\ old_page = NoOldPage

Next == Compare \/ Display \/ UserSlide \/ Rerun

Spec == Init /\ [][Next]_vars

-----------------------------------------------------------------------------
(* A direct call of get_heading_level on a given percentage.               *)

(* Percentages in steps of a tenth of a percent, and NaN.                  *)
HeadingInputs ==
    { Num(k * (Scale \div 10)) : k \in (0 - HeadingRange)..HeadingRange } \cup {NaN}

HeadingCall ==
    /\ pc = "heading"
    /\ heading' = get_heading_level(percentage)
    /\ pc' = "heading_done"
    /\ UNCHANGED <<remote, default_days, cache, widget, outcome, domain,
                   default_window, result, page, sample, percentage,
                   old_inputs, old_page>>

InitHeading ==
    /\ remote = [s \in Symbols |-> RemoteRows(s, 1, 1, {})]
    /\ default_days = DefaultDays
    /\ cache = [s \in Symbols |-> NoEntry]
    /\ widget = NoWidget
    /\ pc = "heading"
    /\ outcome = "none"
    /\ domain = NoDomain
    /\ default_window = NoWindow
    /\ result = NoResult
    /\ page = NoPage
    /\ sample = NoSample
    /\ percentage \in HeadingInputs
    /\ heading = ""
    /\ old_inputs = NoOldInputs
    /\ old_page = NoOldPage

SpecHeading == InitHeading /\ [][HeadingCall]_vars

-----------------------------------------------------------------------------
(* app_old.py: the script of the earlier revision, run top to bottom on    *)
(* every interaction.                                                      *)

(* yf.download(symbol, start=start, end=end): the rows from start up to,   *)
(* not including, end; Return is computed without dropna.                  *)
get_data(symbol, start, end) ==
    WithReturn(SelectSeq(remote[symbol], LAMBDA r : start <= r.date /\ r.date < end))

(* frame.iloc[lo:hi]                                                       *)
ILoc(frame, lo, hi) ==
    LET top == IF hi < Len(frame) THEN hi ELSE Len(frame)
    IN  IF lo >= top THEN <<>> ELSE SubSeq(frame, lo + 1, top)

(* filtered["Return"].iloc[-1] if not filtered.empty else 0                *)
OldReturn(filtered) == IF filtered # <<>> THEN filtered[Len(filtered)].ret ELSE Num(0)

OldScript ==
    /\ pc = "old"
    /\ \E start_date \in 1..(MaxDate + 1), end_date \in 1..(MaxDate + 1) :
         LET btc == get_data("BTC", start_date, end_date)
             eth == get_data("ETH", start_date, end_date)
         IN  \E lo \in 0..Len(btc), hi \in 0..Len(btc) :
               /\ lo <= hi
               /\ old_inputs' = [set |-> TRUE, start_date |-> start_date,
                                 end_date |-> end_date, lo |-> lo, hi |-> hi]
               /\ old_page' = [set |-> TRUE,
                               btc_return |-> Format2f(OldReturn(ILoc(btc, lo, hi))),
                               eth_return |-> Format2f(OldReturn(ILoc(eth, lo, hi)))]
    /\ UNCHANGED <<remote, default_days, cache, widget, pc, outcome, domain,
                   default_window, result, page, sample, percentage, heading>>

InitOld ==
    /\ remote \in Downloads(0)
    /\ default_days = DefaultDays
    /\ cache = [s \in Symbols |-> NoEntry]
    /\ widget = NoWidget
    /\ pc = "old"
    /\ outcome = "none"
    /\ domain = NoDomain
    /\ default_window = NoWindow
    /\ result = NoResult
    /\ page = NoPage
    /\ sample = NoSample
    /\ percentage = Num(0)
    /\ heading = ""
    /\ old_inputs = NoOldInputs
    /\ old_page = NoOldPage

SpecOld == InitOld /\ [][OldScript]_vars

-----------------------------------------------------------------------------
(* Vocabulary of the properties.                                           *)

Dates(data) == {data[i].date : i \in 1..Len(data)}

RetAt(data, d) == (CHOOSE r \in {data[i] : i \in 1..Len(data)} : r.date = d).ret

MaxOf(S) == CHOOSE x \in S : \A y \in S : y <= x

MinOf(S) == CHOOSE x \in S : \A y \in S : x <= y

(* The last date of the series on or before d, the first on or after d.    *)
HasLE(data, d) == \E x \in Dates(data) : x <= d

HasGE(data, d) == \E x \in Dates(data) : x >= d

LastLE(data, d) == MaxOf({x \in Dates(data) : x <= d})

FirstGE(data, d) == MinOf({x \in Dates(data) : x >= d})

InWindow(data, start, end) == {x \in Dates(data) : start <= x /\ x <= end}

Assets(res) == {res.src_asset, res.compare_asset}

Closes(data) == [i \in 1..Len(data) |-> data[i].close.v]

Rets(data) == [i \in 1..Len(data) |-> data[i].ret]

Percent(x) == Num(x * Scale)

Overlap == domain.min_date <= domain.max_date

(* The asset a line of the page is about.                                  *)
AssetOf(line) == CHOOSE a \in Assets(result) : a.symbol = line.symbol

-----------------------------------------------------------------------------
(* C1, as stated: for a window inside the domain, each asset's return is   *)
(* the cumulative return at the last series date <= end minus the one at   *)
(* the last series date <= start (stated here for the windows where both   *)
(* of these are numbers).                                                  *)
C1_AsOfBothBounds ==
    (result.set /\ Overlap /\ domain.min_date <= result.start_date
       /\ result.start_date <= result.end_date /\ result.end_date <= domain.max_date)
    => \A a \in Assets(result) :
         LET atEnd   == RetAt(a.data, LastLE(a.data, result.end_date))
             atStart == RetAt(a.data, LastLE(a.data, result.start_date))
         IN  (IsNum(atEnd) /\ IsNum(atStart)) => a.return_value = FSub(atEnd, atStart)

(* C1, amended: whenever a return is computed, the series has a date in    *)
(* the window and the return is the cumulative return at the last series   *)
(* date <= end minus the one at the first series date >= start, NaN        *)
(* included; a run that got a window from the slider ends in IndexError    *)
(* exactly when some series has no date in the window.                     *)
C1_SliceBounds ==
    /\ result.set =>
         \A a \in Assets(result) :
           /\ InWindow(a.data, result.start_date, result.end_date) # {}
           /\ a.return_value =
                FSub(RetAt(a.data, LastLE(a.data, result.end_date)),
                     RetAt(a.data, FirstGE(a.data, result.start_date)))
    /\ (widget.shown /\ outcome # "none") =>
         (outcome = "IndexError" <=>
            \E sym \in Symbols : InWindow(cache[sym].data, widget.start, widget.end) = {})

C1_Witness ==
    /\ pc = "display"
    /\ Overlap
    /\ \E a \in Assets(result) :
         /\ result.start_date \notin Dates(a.data)
         /\ IsNum(RetAt(a.data, LastLE(a.data, result.start_date)))
         /\ IsNum(a.return_value)
         /\ a.return_value # FSub(RetAt(a.data, LastLE(a.data, result.end_date)),
                                  RetAt(a.data, LastLE(a.data, result.start_date)))

(* C2: the cumulative return at the first date of a series is zero: for    *)
(* closes 100, 110, 99 on three dates the cumulative returns are 0, 10, 0  *)
(* percent, and the window from the first to the third date gives a return *)
(* of 0.0, shown as positive under the smallest heading.                   *)
C2_FirstDateIsZero ==
    (result.set /\ pc = "done" /\ outcome = "ok" /\ Overlap) =>
      \A a \in Assets(result) :
        (/\ Closes(a.data) = <<100, 110, 99>>
         /\ result.start_date = a.data[1].date
         /\ result.end_date = a.data[3].date)
        => /\ Rets(a.data) = <<Percent(0), Percent(10), Percent(0)>>
           /\ a.return_value = Percent(0)
           /\ a.return_color = "green"
           /\ \E i \in 1..Len(page.returns) :
                /\ page.returns[i].symbol = a.symbol
                /\ page.returns[i].heading = "####"
                /\ page.returns[i].text = [tag |-> "num", v |-> 0]

(* C3: when the two date ranges do not overlap the run ends in             *)
(* NoOverlapError and nothing further happens: no default window, no       *)
(* slider, no return.                                                      *)
C3_NoOverlapHalts ==
    (domain.set /\ ~Overlap) =>
      /\ outcome = "NoOverlapError"
      /\ ~default_window.set
      /\ ~widget.shown
      /\ ~result.set

(* C4: a window of a single date, or one holding no date of an asset's     *)
(* series, produces no return value (the calculation fails instead): no    *)
(* number is handed on as an asset's return.                               *)
C4_EmptyWindowFails ==
    (outcome # "none" /\ widget.shown /\ Overlap) =>
      ((\/ widget.start = widget.end
        \/ \E sym \in Symbols : InWindow(cache[sym].data, widget.start, widget.end) = {})
       => ~(result.set /\ \E a \in Assets(result) : IsNum(a.return_value)))

(* C5: a return of zero reaches the renderer only when it was computed     *)
(* from two data points inside the window.                                 *)
C5_ZeroOnlyFromTwoPoints ==
    (pc = "display" /\ result.set /\ Overlap) =>
      \A a \in Assets(result) :
        a.return_value = Num(0) =>
          Cardinality(InWindow(a.data, result.start_date, result.end_date)) >= 2

(* The same for the earlier revision: a return shown as 0 comes from rows  *)
(* inside the lens.                                                        *)
OldZeroOnlyFromData ==
    (old_page.set /\ old_page.btc_return = [tag |-> "num", v |-> 0]) =>
      ILoc(get_data("BTC", old_inputs.start_date, old_inputs.end_date),
           old_inputs.lo, old_inputs.hi) # <<>>

(* C6: the domain is (the later of the two first dates, the earlier of the *)
(* two last dates), whichever asset is the source and whichever the        *)
(* comparison.                                                             *)
C6_DomainCommutes ==
    domain.set =>
      LET a == cache["BTC"]
          b == cache["ETH"]
      IN  /\ domain.min_date = MaxOf({a.min_date, b.min_date})
          /\ domain.max_date = MinOf({a.max_date, b.max_date})
          /\ ResolveDomain(b, a) = ResolveDomain(a, b)
          /\ ResolveDomain(b, a).min_date = domain.min_date
          /\ ResolveDomain(b, a).max_date = domain.max_date

C6_Witness ==
    /\ domain.set
    /\ cache["BTC"].min_date < cache["ETH"].min_date
    /\ cache["BTC"].max_date < cache["ETH"].max_date
    /\ domain.min_date = cache["ETH"].min_date
    /\ domain.max_date = cache["BTC"].max_date

(* C7: the default window ends at the domain's end, starts default_days    *)
(* before it or at the domain's start, whichever is later, and lies in the *)
(* domain with start <= end.                                               *)
C7_DefaultWindowInDomain ==
    default_window.set =>
      /\ default_window.end = domain.max_date
      /\ default_window.start = MaxOf({domain.max_date - default_days, domain.min_date})
      /\ domain.min_date <= default_window.start
      /\ default_window.start <= default_window.end
      /\ default_window.end <= domain.max_date

(* C8: the returns are rendered as a permutation of (source, comparison),  *)
(* in descending order of return, the source first when the returns are    *)
(* equal.                                                                  *)
C8_SortedDescending ==
    (Len(page.returns) = 2 /\ Overlap) =>
      LET first  == AssetOf(page.returns[1])
          second == AssetOf(page.returns[2])
      IN  /\ {page.returns[1].symbol, page.returns[2].symbol} = {"BTC", "ETH"}
          /\ FGe(first.return_value, second.return_value)
          /\ first.return_value = second.return_value => first.symbol = "BTC"

(* C9: the heading is chosen from the absolute value of the percentage:    *)
(* "#" from 100, "##" from 50, "###" from 10, "####" below; 75.4 gives     *)
(* "##", -150.0 gives "#", and p and -p get the same heading.              *)
C9_HeadingTiers ==
    pc = "heading_done" =>
      /\ IsNum(percentage) =>
           LET m == IF percentage.v < 0 THEN 0 - percentage.v ELSE percentage.v
           IN  /\ m >= 100 * Scale => heading = "#"
               /\ (50 * Scale <= m /\ m < 100 * Scale) => heading = "##"
               /\ (10 * Scale <= m /\ m < 50 * Scale) => heading = "###"
               /\ m < 10 * Scale => heading = "####"
               /\ get_heading_level(Num(0 - percentage.v)) = heading
      /\ percentage = Num(754 * (Scale \div 10)) => heading = "##"
      /\ percentage = Percent(0 - 150) => heading = "#"

C9_Witness ==
    /\ pc = "heading_done"
    /\ percentage = Percent(0 - 150)
    /\ heading = "#"

(* C10: what a run computes depends only on the window selected last: the  *)
(* result is for the slider's current value, a run with the window of an   *)
(* earlier run gives that run's returns and colours again, and the stored  *)
(* series (prices, returns, first and last date) are as first built, with  *)
(* no result of a run kept in them.                                        *)
C10_OnlyLatestWindow ==
    /\ \A sym \in Symbols :
         cache[sym] # NoEntry => cache[sym] = BuildCryptoData(sym, remote[sym])
    /\ result.set => (result.start_date = widget.start /\ result.end_date = widget.end)
    /\ (result.set /\ sample.set
          /\ sample.res.start_date = result.start_date
          /\ sample.res.end_date = result.end_date)
       => result = sample.res

C10_Witness ==
    /\ pc = "display"
    /\ sample.set
    /\ sample.earlier
    /\ sample.res.start_date = result.start_date
    /\ sample.res.end_date = result.end_date
    /\ <<result.start_date, result.end_date>> # <<default_window.start, default_window.end>>
    /\ IsNum(result.src_asset.return_value)
    /\ result.src_asset.return_value # Num(0)

=============================================================================
